---- MODULE Spec2Model ----
(***************************************************************************)
(* One-time-pad component of src/src/App.tsx: the cipher helpers           *)
(* (normalizeInput, toIndices, fromIndices, otpAdd, otpSub, randomPad) as  *)
(* operators, and the OTPApp component as a state machine over its React   *)
(* state, its pending passive effects and the countdown interval.          *)
(*                                                                         *)
(* Text is a sequence of characters.  An ASCII character is the one-letter *)
(* string of itself; a character outside ASCII is named by its code point  *)
(* ("U+00D1" is the letter N with tilde).                                  *)
(***************************************************************************)
EXTENDS Integers, Sequences, FiniteSets, TLC

VARIABLES
    modeScreen,          \* useState: "null" | "encrypt" | "decrypt"
    decryptStep,         \* useState: "askPad" | "ready"
    padInput,            \* useState: raw text of the pad textarea
    message,             \* useState: raw message (encrypt) / plaintext (decrypt)
    cipher,              \* useState: ciphertext (result, or raw textarea text)
    pad,                 \* useState: pad (generated, or accepted and normalized)
    status,              \* useState: status line
    showEncryptResults,  \* useState
    countdown,           \* useState: Seconds(n), or NoCountdown for null
    timer,               \* the interval of the countdown effect: "none" | "armed" | "fired"
    intervals,           \* intervals created by setInterval and not cleared so far
    pendingEffects,      \* effects whose dependency changed in the last commit
    lastOp,              \* history: the handler, callback or effect that ran last
    lastFrom,            \* history: the session state it ran in
    ticks,               \* history: ticks since the last successful decrypt, -1 when none is outstanding
    sourceThrew,         \* history: crypto.getRandomValues threw in the step just taken
    fnIn, fnOut, fnPc    \* operands, result and position of a helper-function run

sessionVars == <<modeScreen, decryptStep, padInput, message, cipher, pad, status,
                 showEncryptResults, countdown, timer, intervals, pendingEffects, lastOp,
                 lastFrom, ticks, sourceThrew>>
fnVars == <<fnIn, fnOut, fnPc>>
vars == <<modeScreen, decryptStep, padInput, message, cipher, pad, status,
          showEncryptResults, countdown, timer, intervals, pendingEffects, lastOp,
          lastFrom, ticks, sourceThrew, fnIn, fnOut, fnPc>>

Null == "null"

\* a number | null state value
NoCountdown == <<>>
Seconds(n) == << n >>

(***************************************************************************)
(* Characters                                                              *)
(***************************************************************************)
N_TILDE == "U+00D1"
n_tilde == "U+00F1"
O_ACUTE == "U+00D3"
o_acute == "U+00F3"
SHARP_S == "U+00DF"
COMBINING_ACUTE == "U+0301"
COMBINING_TILDE == "U+0303"

UNIFIED_ALPHABET ==
    << "A", "B", "C", "D", "E", "F", "G", "H", "I", "J", "K", "L", "M", "N", N_TILDE,
       "O", "P", "Q", "R", "S", "T", "U", "V", "W", "X", "Y", "Z",
       "0", "1", "2", "3", "4", "5", "6", "7", "8", "9", " ",
       "!", "?", ",", ".", ":", ";", "-", "_", "(", ")", "@", "#", "$", "/", "+",
       "*", "=", "<", ">", "\\", "\"", "'", "[", "]", "{", "}" >>

modulus == Len(UNIFIED_ALPHABET)

LowerCase == << "a", "b", "c", "d", "e", "f", "g", "h", "i", "j", "k", "l", "m",
                "n", "o", "p", "q", "r", "s", "t", "u", "v", "w", "x", "y", "z" >>
UpperCase == << "A", "B", "C", "D", "E", "F", "G", "H", "I", "J", "K", "L", "M",
                "N", "O", "P", "Q", "R", "S", "T", "U", "V", "W", "X", "Y", "Z" >>

Range(s) == { s[i] : i \in 1..Len(s) }

RECURSIVE Flatten(_)
Flatten(ss) == IF ss = <<>> THEN <<>> ELSE Head(ss) \o Flatten(Tail(ss))

\* String.prototype.toUpperCase on one character: a sequence, since the German
\* sharp s upper-cases to two letters.
toUpperCaseChar(ch) ==
    IF ch \in Range(LowerCase)
    THEN << UpperCase[CHOOSE i \in 1..Len(LowerCase) : LowerCase[i] = ch] >>
    ELSE IF ch = n_tilde THEN << N_TILDE >>
    ELSE IF ch = o_acute THEN << O_ACUTE >>
    ELSE IF ch = SHARP_S THEN << "S", "S" >>
    ELSE << ch >>

toUpperCase(s) == Flatten([i \in 1..Len(s) |-> toUpperCaseChar(s[i])])

\* String.prototype.normalize("NFD") on one character: canonical decomposition
\* of a precomposed letter into its base letter and a combining mark.
nfdChar(ch) ==
    IF ch = N_TILDE THEN << "N", COMBINING_TILDE >>
    ELSE IF ch = n_tilde THEN << "n", COMBINING_TILDE >>
    ELSE IF ch = O_ACUTE THEN << "O", COMBINING_ACUTE >>
    ELSE IF ch = o_acute THEN << "o", COMBINING_ACUTE >>
    ELSE << ch >>

normalizeNFD(s) == Flatten([i \in 1..Len(s) |-> nfdChar(s[i])])

\* the characters of the class [\u0300-\u036f] among the characters modelled
CombiningMarks == { COMBINING_ACUTE, COMBINING_TILDE }

stripDiacritics(s) == SelectSeq(s, LAMBDA ch : ch \notin CombiningMarks)

includes(alphabet, ch) == ch \in Range(alphabet)

\* a normalizeInput that skips the filter on the alphabet
normalizeInputNoFilter(input, alphabet) ==
    stripDiacritics(normalizeNFD(toUpperCase(input)))

normalizeInput(input, alphabet) ==
    LET s1 == toUpperCase(input)
        s2 == stripDiacritics(normalizeNFD(s1))
    IN  SelectSeq(s2, LAMBDA ch : includes(alphabet, ch))

\* String.prototype.indexOf for one character: 0-based, -1 when absent
indexOf(alphabet, ch) ==
    IF includes(alphabet, ch)
    THEN (CHOOSE i \in 1..Len(alphabet) :
              alphabet[i] = ch /\ \A j \in 1..(i - 1) : alphabet[j] # ch) - 1
    ELSE -1

\* a toIndices that counts positions from one
toIndicesFromOne(text, alphabet) == [i \in 1..Len(text) |-> indexOf(alphabet, text[i]) + 1]

toIndices(text, alphabet) == [i \in 1..Len(text) |-> indexOf(alphabet, text[i])]

\* alphabet[i] is undefined outside 0..length-1, and join("") renders undefined as ""
fromIndices(arr, alphabet) ==
    Flatten([k \in 1..Len(arr) |->
                IF arr[k] >= 0 /\ arr[k] < Len(alphabet)
                THEN << alphabet[arr[k] + 1] >> ELSE <<>>])

\* the % of the language: the remainder has the sign of the dividend
Rem(a, b) == IF a >= 0 THEN a % b ELSE -((-a) % b)

\* otpAdd without the remainder
otpAddNoWrap(m, p, mod) == [i \in 1..Len(m) |-> m[i] + p[i]]

otpAdd(m, p, mod) == [i \in 1..Len(m) |-> Rem(m[i] + p[i], mod)]

\* otpSub without the + mod before the second remainder
otpSubNoOffset(c, p, mod) == [i \in 1..Len(c) |-> Rem(c[i] - p[i], mod)]

\* otpSub without the second remainder
otpSubNoSecondRem(c, p, mod) == [i \in 1..Len(c) |-> Rem(c[i] - p[i], mod) + mod]

otpSub(c, p, mod) == [i \in 1..Len(c) |-> Rem(Rem(c[i] - p[i], mod) + mod, mod)]

\* a randomPad that reduces the drawn values by one less than the alphabet's length
randomPadShortModulus(buf, alphabet) ==
    LET mod == Len(alphabet) - 1
        idx == [i \in 1..Len(buf) |-> Rem(buf[i], mod)]
    IN  fromIndices(idx, alphabet)

\* randomPad, given the values crypto.getRandomValues wrote into buf
randomPad(buf, alphabet) ==
    LET mod == Len(alphabet)
        idx == [i \in 1..Len(buf) |-> Rem(buf[i], mod)]
    IN  fromIndices(idx, alphabet)

(***************************************************************************)
(* Inputs                                                                  *)
(***************************************************************************)
\* texts a user types or pastes into the three textareas
MessageTexts ==
    { <<>>, << "%" >>, << "h", o_acute >>, << N_TILDE, "}" >>, << "a", "b", "c" >> }
PadTexts ==
    { <<>>, << "%" >>, << "h", o_acute >>, << N_TILDE, "}" >>,
      << "A", "B", "C", "D", "E", "F", "G", "H", "I", "J" >> }
CipherTexts ==
    { <<>>, << "%", "~" >>, << "h", "o" >>, << "}", "a" >>,
      << "h", "e", "l", "l", "o" >>,
      << "H", "O", "L", "A", " ", "M", "U", "N", "D", "O" >> }

\* values the random source may write into one element of the Uint32Array
RandomValues == { 0, 14, 77, 2147483647 }

RECURSIVE SeqsOfLen(_, _)
SeqsOfLen(S, n) ==
    IF n = 0 THEN { <<>> }
    ELSE { Append(s, x) : s \in SeqsOfLen(S, n - 1), x \in S }

(***************************************************************************)
(* The component's state                                                   *)
(***************************************************************************)
\* a lifetime of ten minutes
SecretLifetimeTen == 10 * 60

SecretLifetime == 5 * 60

StatusReady == [text |-> "Listo.", tone |-> "none", args |-> <<>>]
setOK(t) == [text |-> t, tone |-> "ok", args |-> <<>>]
setErr(t, a) == [text |-> t, tone |-> "err", args |-> a]

ErrNoMessage == "Escribe el mensaje que quieres cifrar."
ErrNoPadText == "Pega primero el PAD / Clave."
ErrPadFirst == "Primero proporciona el PAD / Clave."
ErrNoCipher == "Pega el texto cifrado."
ErrLength == "El pad debe tener la MISMA longitud."
ErrRandom == "crypto.getRandomValues"
OkEncrypt == "Cifrado listo. Copia el pad y el texto cifrado."
OkPad == "PAD listo. Ahora pega el texto cifrado y presiona Descifrar."
OkDecrypt == "Descifrado recuperado."

NoRun == [kind |-> "none", m |-> <<>>, p |-> <<>>, text |-> <<>>]

sessionInit ==
    /\ modeScreen = Null
    /\ decryptStep = "askPad"
    /\ padInput = <<>>
    /\ message = <<>>
    /\ cipher = <<>>
    /\ pad = <<>>
    /\ status = StatusReady
    /\ showEncryptResults = FALSE
    /\ countdown = NoCountdown
    /\ timer = "none"
    /\ intervals = 0
    /\ pendingEffects = {}
    /\ lastOp = "mount"
    /\ lastFrom = "unmounted"
    /\ ticks = -1
    /\ sourceThrew = FALSE

Init ==
    /\ sessionInit
    /\ fnIn = NoRun
    /\ fnOut = <<>>
    /\ fnPc = "idle"

\* what the component renders (lines 243-381): the controls a user can reach
ModeSelectionScreen == modeScreen = Null
AskPadScreen == modeScreen = "decrypt" /\ decryptStep = "askPad"
EncryptScreen == modeScreen = "encrypt"
\* a decrypt section rendered for the decrypt mode whatever the pad step
DecryptScreenAnyStep == modeScreen = "decrypt"

DecryptScreen == modeScreen = "decrypt" /\ decryptStep = "ready"

\* the session states of the specification, read off what is rendered
MessageEntry == EncryptScreen /\ ~showEncryptResults
Encrypted == EncryptScreen /\ showEncryptResults
AwaitingPad == AskPadScreen
PadAccepted == DecryptScreen /\ countdown = NoCountdown
DecryptedActive == DecryptScreen /\ countdown # NoCountdown

SessionState ==
    IF ModeSelectionScreen THEN "ModeSelection"
    ELSE IF AwaitingPad THEN "AwaitingPad"
    ELSE IF MessageEntry THEN "MessageEntry"
    ELSE IF Encrypted THEN "Encrypted"
    ELSE IF PadAccepted THEN "PadAccepted"
    ELSE "DecryptedActive"

\* a resetAll that forgets setPad("")
resetAllKeepsPad ==
    [message |-> <<>>, cipher |-> <<>>, pad |-> pad, padInput |-> <<>>,
     decryptStep |-> "askPad", showEncryptResults |-> FALSE, countdown |-> NoCountdown,
     status |-> StatusReady]

\* the values resetAll installs
resetAll ==
    [message |-> <<>>, cipher |-> <<>>, pad |-> <<>>, padInput |-> <<>>,
     decryptStep |-> "askPad", showEncryptResults |-> FALSE, countdown |-> NoCountdown,
     status |-> StatusReady]

\* the effects whose dependency differs between the committed and the new value
ChangedDeps(newMode, newCountdown) ==
    (IF newMode # modeScreen THEN {"modeScreen"} ELSE {})
        \cup (IF newCountdown # countdown THEN {"countdown"} ELSE {})

ApplyReset(r) ==
    /\ message' = r.message
    /\ cipher' = r.cipher
    /\ pad' = r.pad
    /\ padInput' = r.padInput
    /\ decryptStep' = r.decryptStep
    /\ showEncryptResults' = r.showEncryptResults
    /\ countdown' = r.countdown
    /\ status' = r.status

(***************************************************************************)
(* Handlers, computed as the code computes them                            *)
(***************************************************************************)
\* an onEncrypt that carries on with a pad from another source when
\* crypto.getRandomValues throws
encryptWeakFallback(msg, buf, thrown) ==
    LET norm == normalizeInput(msg, UNIFIED_ALPHABET)
        newPad == randomPad(buf, UNIFIED_ALPHABET)
        mi == toIndices(norm, UNIFIED_ALPHABET)
        pi == toIndices(newPad, UNIFIED_ALPHABET)
        ci == otpAdd(mi, pi, modulus)
        ct == fromIndices(ci, UNIFIED_ALPHABET)
    IN  IF Len(norm) = 0 THEN [ok |-> FALSE, err |-> setErr(ErrNoMessage, <<>>)]
        ELSE [ok |-> TRUE, pad |-> newPad, cipher |-> ct]

\* the body of onEncrypt's try block, given the message and the random values
\* drawn (thrown == TRUE: crypto.getRandomValues threw)
encrypt(msg, buf, thrown) ==
    LET norm == normalizeInput(msg, UNIFIED_ALPHABET)
        newPad == randomPad(buf, UNIFIED_ALPHABET)
        mi == toIndices(norm, UNIFIED_ALPHABET)
        pi == toIndices(newPad, UNIFIED_ALPHABET)
        ci == otpAdd(mi, pi, modulus)
        ct == fromIndices(ci, UNIFIED_ALPHABET)
    IN  IF Len(norm) = 0 THEN [ok |-> FALSE, err |-> setErr(ErrNoMessage, <<>>)]
        ELSE IF thrown THEN [ok |-> FALSE, err |-> setErr(ErrRandom, <<>>)]
        ELSE [ok |-> TRUE, pad |-> newPad, cipher |-> ct]

\* an onAcceptPadForDecrypt that stores the pad as pasted
acceptPadRaw(text) ==
    LET pNorm == normalizeInput(text, UNIFIED_ALPHABET)
    IN  IF Len(pNorm) = 0 THEN [ok |-> FALSE, err |-> setErr(ErrNoPadText, <<>>)]
        ELSE [ok |-> TRUE, pad |-> text]

\* the body of onAcceptPadForDecrypt's try block
acceptPad(text) ==
    LET pNorm == normalizeInput(text, UNIFIED_ALPHABET)
    IN  IF Len(pNorm) = 0 THEN [ok |-> FALSE, err |-> setErr(ErrNoPadText, <<>>)]
        ELSE [ok |-> TRUE, pad |-> pNorm]

\* an onDecrypt that reports the two lengths the other way round
decryptLengthsSwapped(step, cipherText, p) ==
    LET c == normalizeInput(cipherText, UNIFIED_ALPHABET)
        ci == toIndices(c, UNIFIED_ALPHABET)
        pi == toIndices(p, UNIFIED_ALPHABET)
        mi == otpSub(ci, pi, modulus)
        plain == fromIndices(mi, UNIFIED_ALPHABET)
    IN  IF step # "ready" THEN [ok |-> FALSE, err |-> setErr(ErrPadFirst, <<>>)]
        ELSE IF Len(c) = 0 THEN [ok |-> FALSE, err |-> setErr(ErrNoCipher, <<>>)]
        ELSE IF Len(c) # Len(p) THEN [ok |-> FALSE, err |-> setErr(ErrLength, << Len(p), Len(c) >>)]
        ELSE [ok |-> TRUE, plain |-> plain]

\* an onDecrypt that tests the raw ciphertext, not the normalized one, for emptiness
decryptRawEmptyTest(step, cipherText, p) ==
    LET c == normalizeInput(cipherText, UNIFIED_ALPHABET)
        ci == toIndices(c, UNIFIED_ALPHABET)
        pi == toIndices(p, UNIFIED_ALPHABET)
        mi == otpSub(ci, pi, modulus)
        plain == fromIndices(mi, UNIFIED_ALPHABET)
    IN  IF step # "ready" THEN [ok |-> FALSE, err |-> setErr(ErrPadFirst, <<>>)]
        ELSE IF Len(cipherText) = 0 THEN [ok |-> FALSE, err |-> setErr(ErrNoCipher, <<>>)]
        ELSE IF Len(c) # Len(p) THEN [ok |-> FALSE, err |-> setErr(ErrLength, << Len(c), Len(p) >>)]
        ELSE [ok |-> TRUE, plain |-> plain]

\* the body of onDecrypt's try block
decrypt(step, cipherText, p) ==
    LET c == normalizeInput(cipherText, UNIFIED_ALPHABET)
        ci == toIndices(c, UNIFIED_ALPHABET)
        pi == toIndices(p, UNIFIED_ALPHABET)
        mi == otpSub(ci, pi, modulus)
        plain == fromIndices(mi, UNIFIED_ALPHABET)
    IN  IF step # "ready" THEN [ok |-> FALSE, err |-> setErr(ErrPadFirst, <<>>)]
        ELSE IF Len(c) = 0 THEN [ok |-> FALSE, err |-> setErr(ErrNoCipher, <<>>)]
        ELSE IF Len(c) # Len(p) THEN [ok |-> FALSE, err |-> setErr(ErrLength, << Len(c), Len(p) >>)]
        ELSE [ok |-> TRUE, plain |-> plain]

\* an updater that takes two seconds off per tick
decrementTwo(s) == Seconds((IF s = NoCountdown THEN 1 ELSE s[1]) - 2)

\* the updater of the interval callback: (s ?? 1) - 1
decrement(s) == Seconds((IF s = NoCountdown THEN 1 ELSE s[1]) - 1)

\* return () => clearInterval(t): run before the effect runs again, it clears
\* the interval the previous run created, if that run created one
cleanup(n) == IF n > 0 THEN n - 1 ELSE 0

\* React runs the passive effects of a commit before it handles the next user event
Quiescent == pendingEffects = {}

(***************************************************************************)
(* User events                                                             *)
(***************************************************************************)
\* the Cifrar / Descifrar buttons of the first screen and the Volver links
SetModeScreen(m) ==
    /\ Quiescent
    /\ \/ ModeSelectionScreen /\ m \in {"encrypt", "decrypt"}
       \/ ~ModeSelectionScreen /\ m = Null
    /\ modeScreen' = m
    /\ pendingEffects' = ChangedDeps(m, countdown)
    /\ lastOp' = "setModeScreen"
    /\ sourceThrew' = FALSE
    /\ lastFrom' = SessionState
    /\ ticks' = -1
    /\ UNCHANGED <<decryptStep, padInput, message, cipher, pad, status,
                   showEncryptResults, countdown, timer, intervals, fnVars>>

SetMessage(t) ==
    /\ Quiescent
    /\ EncryptScreen
    /\ message' = t
    /\ lastOp' = "setMessage"
    /\ sourceThrew' = FALSE
    /\ lastFrom' = SessionState
    /\ ticks' = -1
    /\ UNCHANGED <<modeScreen, decryptStep, padInput, cipher, pad, status,
                   showEncryptResults, countdown, timer, intervals, pendingEffects, fnVars>>

SetPadInput(t) ==
    /\ Quiescent
    /\ AskPadScreen
    /\ padInput' = t
    /\ lastOp' = "setPadInput"
    /\ sourceThrew' = FALSE
    /\ lastFrom' = SessionState
    /\ ticks' = -1
    /\ UNCHANGED <<modeScreen, decryptStep, message, cipher, pad, status,
                   showEncryptResults, countdown, timer, intervals, pendingEffects, fnVars>>

SetCipher(t) ==
    /\ Quiescent
    /\ DecryptScreen
    /\ cipher' = t
    /\ lastOp' = "setCipher"
    /\ sourceThrew' = FALSE
    /\ lastFrom' = SessionState
    /\ ticks' = IF countdown = NoCountdown THEN -1 ELSE ticks
    /\ UNCHANGED <<modeScreen, decryptStep, padInput, message, pad, status,
                   showEncryptResults, countdown, timer, intervals, pendingEffects, fnVars>>

OnEncrypt ==
    /\ Quiescent
    /\ EncryptScreen
    /\ \E thrown \in BOOLEAN :
       \E buf \in SeqsOfLen(RandomValues, Len(normalizeInput(message, UNIFIED_ALPHABET))) :
         LET r == encrypt(message, buf, thrown)
         IN  /\ IF ~r.ok
                THEN /\ status' = r.err
                     /\ UNCHANGED <<pad, cipher, showEncryptResults>>
                ELSE /\ pad' = r.pad
                     /\ cipher' = r.cipher
                     /\ showEncryptResults' = TRUE
                     /\ status' = setOK(OkEncrypt)
             \* randomPad is reached only past the empty-message test
             /\ sourceThrew' = (thrown /\ Len(normalizeInput(message, UNIFIED_ALPHABET)) > 0)
    /\ lastOp' = "onEncrypt"
    /\ lastFrom' = SessionState
    /\ ticks' = -1
    /\ UNCHANGED <<modeScreen, decryptStep, padInput, message, countdown, timer, intervals,
                   pendingEffects, fnVars>>

OnAcceptPadForDecrypt ==
    /\ Quiescent
    /\ AskPadScreen
    /\ LET r == acceptPad(padInput)
       IN  IF ~r.ok
           THEN /\ status' = r.err
                /\ UNCHANGED <<pad, decryptStep>>
           ELSE /\ pad' = r.pad
                /\ decryptStep' = "ready"
                /\ status' = setOK(OkPad)
    /\ lastOp' = "onAcceptPadForDecrypt"
    /\ sourceThrew' = FALSE
    /\ lastFrom' = SessionState
    /\ ticks' = -1
    /\ UNCHANGED <<modeScreen, padInput, message, cipher, showEncryptResults,
                   countdown, timer, intervals, pendingEffects, fnVars>>

OnDecrypt ==
    /\ Quiescent
    /\ DecryptScreen
    /\ LET r == decrypt(decryptStep, cipher, pad)
       IN  IF ~r.ok
           THEN /\ status' = r.err
                /\ ticks' = IF countdown = NoCountdown THEN -1 ELSE ticks
                /\ UNCHANGED <<message, countdown, pendingEffects>>
           ELSE /\ message' = r.plain
                /\ status' = setOK(OkDecrypt)
                /\ countdown' = Seconds(SecretLifetime)
                /\ pendingEffects' = ChangedDeps(modeScreen, Seconds(SecretLifetime))
                /\ ticks' = 0
    /\ lastOp' = "onDecrypt"
    /\ sourceThrew' = FALSE
    /\ lastFrom' = SessionState
    /\ UNCHANGED <<modeScreen, decryptStep, padInput, cipher, pad,
                   showEncryptResults, timer, intervals, fnVars>>

\* the Limpiar button of the three screens behind the first one
OnClearAll ==
    /\ Quiescent
    /\ ~ModeSelectionScreen
    /\ ApplyReset(resetAll)
    /\ pendingEffects' = ChangedDeps(modeScreen, resetAll.countdown)
    /\ lastOp' = "onClearAll"
    /\ sourceThrew' = FALSE
    /\ lastFrom' = SessionState
    /\ ticks' = -1
    /\ UNCHANGED <<modeScreen, timer, intervals, fnVars>>

(***************************************************************************)
(* The interval callback and the passive effects                           *)
(***************************************************************************)
\* the callback of setInterval(..., 1000): fires once per period while the
\* interval is live; the effects of a commit run well within one period
Tick ==
    /\ timer = "armed"
    /\ countdown' = decrement(countdown)
    /\ timer' = "fired"
    /\ intervals' = intervals
    /\ pendingEffects' = pendingEffects \cup {"countdown"}
    /\ lastOp' = "tick"
    /\ sourceThrew' = FALSE
    /\ lastFrom' = SessionState
    /\ ticks' = IF ticks >= 0 THEN ticks + 1 ELSE ticks
    /\ UNCHANGED <<modeScreen, decryptStep, padInput, message, cipher, pad, status,
                   showEncryptResults, fnVars>>

\* the effects of the last commit: useEffect(..., [modeScreen]) and
\* useEffect(..., [countdown]), cleanup first
RunEffects ==
    /\ pendingEffects # {}
    /\ LET modeRuns == "modeScreen" \in pendingEffects
           countdownRuns == "countdown" \in pendingEffects
           expired == countdownRuns /\ countdown # NoCountdown /\ countdown[1] <= 0
           arms == countdownRuns /\ countdown # NoCountdown /\ countdown[1] > 0
       IN  /\ timer' = IF countdownRuns
                        THEN (IF arms THEN "armed" ELSE "none")
                        ELSE timer
           /\ intervals' = (IF countdownRuns THEN cleanup(intervals) ELSE intervals)
                                + (IF arms THEN 1 ELSE 0)
           /\ IF modeRuns \/ expired
              THEN /\ ApplyReset(resetAll)
                   /\ pendingEffects' = ChangedDeps(modeScreen, resetAll.countdown)
              ELSE /\ pendingEffects' = {}
                   /\ UNCHANGED <<message, cipher, pad, padInput, decryptStep,
                                  showEncryptResults, countdown, status>>
           /\ lastOp' = IF modeRuns THEN "effect:modeScreen" ELSE "effect:countdown"
           /\ sourceThrew' = FALSE
           /\ lastFrom' = SessionState
    /\ UNCHANGED <<modeScreen, ticks, fnVars>>

Next ==
    \/ \E m \in {Null, "encrypt", "decrypt"} : SetModeScreen(m)
    \/ \E t \in MessageTexts : SetMessage(t)
    \/ \E t \in PadTexts : SetPadInput(t)
    \/ \E t \in CipherTexts : SetCipher(t)
    \/ OnEncrypt
    \/ OnAcceptPadForDecrypt
    \/ OnDecrypt
    \/ OnClearAll
    \/ Tick
    \/ RunEffects

Spec == Init /\ [][Next]_vars

(***************************************************************************)
(* The helper functions on their own: a run applies them to operands drawn *)
(* from bounded sets, as the self-tests of lines 127-154 apply them        *)
(***************************************************************************)
MaxLen == 2

\* index values for operands longer than one element (every value of
\* 0..modulus-1 is drawn for operands of one element)
IndexSample == { 0, 1, 14, 32, 62, 63 }

\* characters of raw text: lower case, accented, the extra letter, a letter
\* that upper-cases to two, a character outside the alphabet, a digit, a
\* lone combining mark
InputChars == { "a", o_acute, N_TILDE, SHARP_S, "%", "1", COMBINING_ACUTE }

\* "canci\u00f3n NI\u00d1O 123 !" and the result self-test 2 asserts
SelfTest2Input ==
    << "c", "a", "n", "c", "i", o_acute, "n", " ", "N", "I", N_TILDE, "O", " ",
       "1", "2", "3", " ", "!" >>
SelfTest2Expected ==
    << "C", "A", "N", "C", "I", "O", "N", " ", "N", "I", N_TILDE, "O", " ",
       "1", "2", "3", " ", "!" >>
\* the sample of self-test 4
SelfTest4Sample ==
    << "@", "#", "$", "/", "+", "*", "<", ">", "[", "]", "{", "}", "(", ")" >>

IndexOperands ==
    { << m, p >> : m \in SeqsOfLen(0..(modulus - 1), 1), p \in SeqsOfLen(0..(modulus - 1), 1) }
        \cup UNION { { << m, p >> : m \in SeqsOfLen(IndexSample, n),
                                    p \in SeqsOfLen(IndexSample, n) } : n \in 0..MaxLen }

RawTexts ==
    { SelfTest2Input, SelfTest4Sample }
        \cup UNION { SeqsOfLen(InputChars, n) : n \in 0..MaxLen }

\* symbols for alphabet texts longer than one symbol (every symbol of the
\* alphabet is drawn for texts of one symbol)
SymbolSample == { "A", N_TILDE, " ", "\\", "}" }

AlphabetTexts ==
    SeqsOfLen(Range(UNIFIED_ALPHABET), 1)
        \cup UNION { SeqsOfLen(SymbolSample, n) : n \in 0..MaxLen }

\* what crypto.getRandomValues may leave in the Uint32Array: every residue of
\* the modulus twice over for one element, RandomValues for more
RandomBuffers ==
    SeqsOfLen(0..(2 * modulus - 1), 1)
        \cup UNION { SeqsOfLen(RandomValues, n) : n \in 0..MaxLen }

\* the runs of the helper functions, by the kind of their operands
ArithmeticRuns ==
    { [kind |-> k, m |-> o[1], p |-> o[2], text |-> <<>>] :
          k \in { "roundtrip", "decode" }, o \in IndexOperands }
NormalizeRuns ==
    { [kind |-> "normalize", m |-> <<>>, p |-> <<>>, text |-> t] : t \in RawTexts }
IndexRuns ==
    { [kind |-> "indices", m |-> <<>>, p |-> <<>>, text |-> t] : t \in AlphabetTexts }
PadRuns ==
    { [kind |-> "randomPad", m |-> b, p |-> <<>>, text |-> <<>>] : b \in RandomBuffers }
EndToEndRuns ==
    UNION { { [kind |-> "endToEnd", m |-> b, p |-> <<>>, text |-> t] :
                  b \in SeqsOfLen(RandomValues,
                                  Len(normalizeInput(t, UNIFIED_ALPHABET))) } :
              t \in MessageTexts }

InitFn ==
    /\ sessionInit
    /\ \/ fnIn \in ArithmeticRuns
       \/ fnIn \in NormalizeRuns
       \/ fnIn \in IndexRuns
       \/ fnIn \in PadRuns
       \/ fnIn \in EndToEndRuns
    /\ fnOut = <<>>
    /\ fnPc = "start"

\* const ci = otpAdd(mi, pi, A.length)
Encode ==
    /\ fnPc = "start"
    /\ fnIn.kind = "roundtrip"
    /\ fnOut' = otpAdd(fnIn.m, fnIn.p, modulus)
    /\ fnPc' = "encoded"
    /\ UNCHANGED <<fnIn, sessionVars>>

\* const back = otpSub(ci, pi, A.length)
Decode ==
    /\ fnPc = "encoded"
    /\ fnOut' = otpSub(fnOut, fnIn.p, modulus)
    /\ fnPc' = "decoded"
    /\ UNCHANGED <<fnIn, sessionVars>>

\* const norm = normalizeInput(..., A)
Normalize ==
    /\ fnPc = "start"
    /\ fnIn.kind = "normalize"
    /\ fnOut' = normalizeInput(fnIn.text, UNIFIED_ALPHABET)
    /\ fnPc' = "normalized"
    /\ UNCHANGED <<fnIn, sessionVars>>

\* normalizeInput applied to its own result
Renormalize ==
    /\ fnPc = "normalized"
    /\ fnOut' = normalizeInput(fnOut, UNIFIED_ALPHABET)
    /\ fnPc' = "renormalized"
    /\ UNCHANGED <<fnIn, sessionVars>>

\* const mi = otpSub(ci, pi, modulus) on operands of any origin
Subtract ==
    /\ fnPc = "start"
    /\ fnIn.kind = "decode"
    /\ fnOut' = otpSub(fnIn.m, fnIn.p, modulus)
    /\ fnPc' = "subtracted"
    /\ UNCHANGED <<fnIn, sessionVars>>

\* const rnd = randomPad(n, A), the random source having written fnIn.m
Generate ==
    /\ fnPc = "start"
    /\ fnIn.kind = "randomPad"
    /\ fnOut' = randomPad(fnIn.m, UNIFIED_ALPHABET)
    /\ fnPc' = "generated"
    /\ UNCHANGED <<fnIn, sessionVars>>

\* const mi = toIndices(msg, A)
ToIndices ==
    /\ fnPc = "start"
    /\ fnIn.kind = "indices"
    /\ fnOut' = toIndices(fnIn.text, UNIFIED_ALPHABET)
    /\ fnPc' = "indexed"
    /\ UNCHANGED <<fnIn, sessionVars>>

\* fromIndices(back, A)
FromIndices ==
    /\ fnPc = "indexed"
    /\ fnOut' = fromIndices(fnOut, UNIFIED_ALPHABET)
    /\ fnPc' = "symbols"
    /\ UNCHANGED <<fnIn, sessionVars>>

\* onEncrypt on a message, the random source having written fnIn.m: the pad
\* and the ciphertext it puts on display
EncryptMessage ==
    /\ fnPc = "start"
    /\ fnIn.kind = "endToEnd"
    /\ LET r == encrypt(fnIn.text, fnIn.m, FALSE)
       IN  IF r.ok
           THEN /\ fnOut' = [pad |-> r.pad, cipher |-> r.cipher, plain |-> <<>>]
                /\ fnPc' = "encrypted"
           ELSE /\ fnOut' = r.err
                /\ fnPc' = "refused"
    /\ UNCHANGED <<fnIn, sessionVars>>

\* onAcceptPadForDecrypt on the displayed pad, pasted into the pad textarea
AcceptCopiedPad ==
    /\ fnPc = "encrypted"
    /\ LET r == acceptPad(fnOut.pad)
       IN  IF r.ok
           THEN /\ fnOut' = [fnOut EXCEPT !.pad = r.pad]
                /\ fnPc' = "padAccepted"
           ELSE /\ fnOut' = r.err
                /\ fnPc' = "refused"
    /\ UNCHANGED <<fnIn, sessionVars>>

\* onDecrypt on the displayed ciphertext, pasted into the cipher textarea
DecryptCopiedCipher ==
    /\ fnPc = "padAccepted"
    /\ LET r == decrypt("ready", fnOut.cipher, fnOut.pad)
       IN  IF r.ok
           THEN /\ fnOut' = [fnOut EXCEPT !.plain = r.plain]
                /\ fnPc' = "decrypted"
           ELSE /\ fnOut' = r.err
                /\ fnPc' = "refused"
    /\ UNCHANGED <<fnIn, sessionVars>>

NextFn ==
    \/ EncryptMessage
    \/ AcceptCopiedPad
    \/ DecryptCopiedCipher
    \/ Encode
    \/ Decode
    \/ Normalize
    \/ Renormalize
    \/ Subtract
    \/ Generate
    \/ ToIndices
    \/ FromIndices

SpecFn == InitFn /\ [][NextFn]_vars

(***************************************************************************)
(* Claims                                                                  *)
(***************************************************************************)

\* C1: for every message index sequence m and pad p of equal length with all
\* values in 0..modulus-1, otpSub(otpAdd(m, p), p) = m.
C1_RoundTrip == fnPc = "decoded" => fnOut = fnIn.m

\* a round trip of two elements whose first sum wraps past the modulus and
\* whose second does not
C1_Witness ==
    /\ fnPc = "decoded"
    /\ Len(fnIn.m) = 2
    /\ fnIn.m[1] + fnIn.p[1] >= modulus
    /\ fnIn.m[2] + fnIn.p[2] < modulus
    /\ fnIn.m[2] < fnIn.p[2]
    /\ fnOut = fnIn.m

\* C9: normalize upper-cases, strips accents and keeps every alphabet symbol,
\* the extra letter included: the text of self-test 2 normalizes to the text
\* the self-test expects, and the sample of self-test 4 to itself.
C9_NormalizeScenarios ==
    fnPc = "normalized" =>
        /\ fnIn.text = SelfTest2Input => fnOut = SelfTest2Expected
        /\ fnIn.text = SelfTest4Sample => fnOut = SelfTest4Sample

\* Idle: nothing is held, the pad step is reset and there is no countdown
\* (what resetAll leaves); which screen shows is the wizard's matter
Idle ==
    /\ message = <<>>
    /\ cipher = <<>>
    /\ pad = <<>>
    /\ padInput = <<>>
    /\ decryptStep = "askPad"
    /\ ~showEncryptResults
    /\ countdown = NoCountdown

\* C2: after a successful decrypt has installed the 300-second countdown, 300
\* ticks drive the session to Idle (plaintext, pad and ciphertext empty, the
\* countdown removed, once the effect of the 300th tick has run); before the
\* 300th tick the plaintext is still held and the countdown is 300 minus the
\* number of ticks so far.
C2_CountdownRun ==
    /\ (ticks >= 0 /\ ticks < 300) =>
            /\ countdown = Seconds(300 - ticks)
            /\ message # <<>>
            /\ Len(message) = Len(pad)
            /\ DecryptScreen
    /\ ticks >= 300 =>
            /\ ticks = 300
            /\ countdown \in { Seconds(0), NoCountdown }
            /\ countdown = Seconds(0) => pendingEffects = {"countdown"}
            /\ countdown = NoCountdown => Idle /\ timer = "none"

\* the 300th tick has fired, its effect has run and left the session Idle
C2_Witness ==
    /\ ticks = 300
    /\ lastOp = "effect:countdown"
    /\ Quiescent
    /\ Idle

\* C3: clear and changeMode cancel the pending tick before they return: no
\* tick fires once the reset has removed the countdown, so every tick that
\* fires finds a countdown to decrement and none changes a reset session.
C3_NoTickAfterReset == [][Tick => countdown # NoCountdown]_vars

\* C4: a clear request and a changeMode request each move the session to
\* Idle: message/plaintext, ciphertext, stored pad and pad input empty, the
\* pad step reset, no countdown (clear in the handler, changeMode in the
\* effect its commit triggers, which is pending as the handler returns).
C4_ResetErases ==
    /\ lastOp = "onClearAll" => Idle
    /\ lastOp = "setModeScreen" => "modeScreen" \in pendingEffects
    /\ lastOp = "effect:modeScreen" => Idle

\* a clear issued while a plaintext was counting down (its interval is still
\* to be cleaned up)
C4_Witness ==
    /\ lastOp = "onClearAll"
    /\ lastFrom = "DecryptedActive"
    /\ timer = "armed"
    /\ pendingEffects = {"countdown"}
    /\ Idle

\* C5: in PadAccepted, a decrypt whose normalized ciphertext is not empty and
\* differs in length from the stored pad fails with the length error,
\* reporting the ciphertext length and the pad length; the session stays in
\* PadAccepted, the pad unchanged, no plaintext installed, no countdown.
C5_LengthMismatch ==
    [][ ( /\ lastOp' = "onDecrypt"
          /\ PadAccepted
          /\ Len(normalizeInput(cipher, UNIFIED_ALPHABET)) > 0
          /\ Len(normalizeInput(cipher, UNIFIED_ALPHABET)) # Len(pad) )
        => ( /\ status' = setErr(ErrLength,
                        << Len(normalizeInput(cipher, UNIFIED_ALPHABET)), Len(pad) >>)
             /\ PadAccepted'
             /\ pad' = pad
             /\ cipher' = cipher
             /\ message' = message
             /\ message' = <<>>
             /\ pendingEffects' = {}
             /\ timer' = "none" ) ]_vars

\* scenario C: pad ABCDEFGHIJ accepted, a ciphertext of normalized length 5 refused
C5_Witness ==
    /\ lastOp = "onDecrypt"
    /\ lastFrom = "PadAccepted"
    /\ status = setErr(ErrLength, << 5, 10 >>)
    /\ pad = << "A", "B", "C", "D", "E", "F", "G", "H", "I", "J" >>
    /\ PadAccepted
    /\ message = <<>>

\* C8: encrypt, acceptPad and decrypt fail with their empty-input error when
\* the normalized message, pad or ciphertext is empty, and the failed request
\* leaves mode, pad step, stored pad, ciphertext, message/plaintext, the
\* displayed encrypt results and the countdown as they were.
C8_EmptyInput ==
    [][ /\ ( lastOp' = "onEncrypt" /\ normalizeInput(message, UNIFIED_ALPHABET) = <<>> )
            => ( /\ status' = setErr(ErrNoMessage, <<>>)
                 /\ UNCHANGED <<modeScreen, decryptStep, padInput, pad, cipher, message,
                                showEncryptResults, countdown, timer, intervals, pendingEffects>> )
        /\ ( lastOp' = "onAcceptPadForDecrypt"
                /\ normalizeInput(padInput, UNIFIED_ALPHABET) = <<>> )
            => ( /\ status' = setErr(ErrNoPadText, <<>>)
                 /\ UNCHANGED <<modeScreen, decryptStep, padInput, pad, cipher, message,
                                showEncryptResults, countdown, timer, intervals, pendingEffects>> )
        /\ ( lastOp' = "onDecrypt" /\ normalizeInput(cipher, UNIFIED_ALPHABET) = <<>> )
            => ( /\ status' = setErr(ErrNoCipher, <<>>)
                 /\ UNCHANGED <<modeScreen, decryptStep, padInput, pad, cipher, message,
                                showEncryptResults, countdown, timer, intervals, pendingEffects>> )
      ]_vars

\* a decrypt of a ciphertext that normalizes to nothing, refused while a
\* plaintext is counting down, which it leaves in place
C8_Witness ==
    /\ lastOp = "onDecrypt"
    /\ lastFrom = "DecryptedActive"
    /\ status = setErr(ErrNoCipher, <<>>)
    /\ cipher # <<>>
    /\ normalizeInput(cipher, UNIFIED_ALPHABET) = <<>>
    /\ DecryptedActive
    /\ message # <<>>
    /\ countdown = Seconds(298)

\* C10: a successful encrypt (normalized message not empty) exposes a pad and
\* a ciphertext, both as long as the normalized message, with
\* ciphertext[i] = symbolAt((indexOf(normalized[i]) + indexOf(pad[i])) mod M)
\* at every position, and starts no countdown.
C10_EncryptResult ==
    (lastOp = "onEncrypt" /\ status = setOK(OkEncrypt)) =>
        LET norm == normalizeInput(message, UNIFIED_ALPHABET)
        IN  /\ Len(norm) > 0
            /\ showEncryptResults
            /\ Len(pad) = Len(norm)
            /\ Len(cipher) = Len(norm)
            /\ \A i \in 1..Len(pad) : includes(UNIFIED_ALPHABET, pad[i])
            /\ \A i \in 1..Len(norm) :
                   cipher[i] = UNIFIED_ALPHABET[
                       ((indexOf(UNIFIED_ALPHABET, norm[i])
                            + indexOf(UNIFIED_ALPHABET, pad[i])) % modulus) + 1]
            /\ countdown = NoCountdown
            /\ timer = "none"
            /\ pendingEffects = {}

\* an encrypt of a three-letter message whose pad holds the extra letter and
\* with a position where the sum of the two indices wraps past the modulus
C10_Witness ==
    /\ lastOp = "onEncrypt"
    /\ status = setOK(OkEncrypt)
    /\ Len(cipher) = 3
    /\ N_TILDE \in Range(pad)
    /\ \E i \in 1..Len(pad) :
           indexOf(UNIFIED_ALPHABET, normalizeInput(message, UNIFIED_ALPHABET)[i])
               + indexOf(UNIFIED_ALPHABET, pad[i]) >= modulus

C11_ClosedAndIdempotent ==
    /\ [](fnPc = "normalized"
            => \A i \in 1..Len(fnOut) : includes(UNIFIED_ALPHABET, fnOut[i]))
    /\ [][fnPc' = "renormalized" => fnOut' = fnOut]_vars

\* an accented lower-case letter and a character outside the alphabet,
\* normalized twice
C11_Witness ==
    /\ fnPc = "renormalized"
    /\ fnIn.text = << o_acute, "%" >>
    /\ fnOut = << "O" >>

\* C12: normalize(x) is never longer than x (case folding, diacritic
\* stripping and filtering only shrink or preserve the text).
C12_NeverGrows == fnPc = "normalized" => Len(fnOut) <= Len(fnIn.text)

\* C13: randomPad returns a pad exactly as long as requested, every symbol an
\* alphabet symbol: the symbol at the drawn value reduced modulo M.
C13_PadLengthAndRange ==
    fnPc = "generated" =>
        /\ Len(fnOut) = Len(fnIn.m)
        /\ \A i \in 1..Len(fnOut) :
               /\ includes(UNIFIED_ALPHABET, fnOut[i])
               /\ fnOut[i] = UNIFIED_ALPHABET[(fnIn.m[i] % modulus) + 1]

\* a pad of two symbols drawn from values beyond the modulus
C13_Witness ==
    /\ fnPc = "generated"
    /\ fnIn.m = << 2147483647, 77 >>
    /\ fnOut = << "}", "N" >>

\* C14: for equal-length operands over 0..M-1, otpAdd and otpSub return as
\* many elements as their first operand, each in 0..M-1; otpSub in particular
\* returns no negative value where c[i] < p[i].
C14_LengthAndRange ==
    /\ fnPc = "encoded" =>
            /\ Len(fnOut) = Len(fnIn.m)
            /\ \A i \in 1..Len(fnOut) : fnOut[i] \in 0..(modulus - 1)
    /\ fnPc = "subtracted" =>
            /\ Len(fnOut) = Len(fnIn.m)
            /\ \A i \in 1..Len(fnOut) : fnOut[i] \in 0..(modulus - 1)

\* a subtraction with c[i] < p[i] at both positions
C14_Witness ==
    /\ fnPc = "subtracted"
    /\ fnIn.m = << 0, 14 >>
    /\ fnIn.p = << 63, 32 >>
    /\ fnOut = << 1, 46 >>

\* C16: the alphabet has no duplicate symbol; toIndices returns, for a text
\* over the alphabet, as many indices as symbols, each the position of its
\* symbol (indexOf(symbolAt(i)) = i), and fromIndices turns them back into
\* the text.
C16_IndexBijection ==
    /\ fnIn.kind = "indices" =>
            \A i, j \in 1..modulus : UNIFIED_ALPHABET[i] = UNIFIED_ALPHABET[j] => i = j
    /\ fnPc = "indexed" =>
            /\ Len(fnOut) = Len(fnIn.text)
            /\ \A k \in 1..Len(fnOut) :
                   /\ fnOut[k] \in 0..(modulus - 1)
                   /\ UNIFIED_ALPHABET[fnOut[k] + 1] = fnIn.text[k]
            /\ \A i \in 0..(modulus - 1) :
                   fnIn.text = << UNIFIED_ALPHABET[i + 1] >> => fnOut = << i >>
    /\ fnPc = "symbols" => fnOut = fnIn.text

\* the extra letter and the last symbol, to indices and back
C16_Witness ==
    /\ fnPc = "symbols"
    /\ fnIn.text = << N_TILDE, "}" >>
    /\ fnOut = << N_TILDE, "}" >>

\* C15: when the secure random source throws during an encrypt, the request
\* ends with the error in the status line and leaves mode, message, stored
\* pad, ciphertext, displayed results, pad step and countdown as they were:
\* no pad comes from anywhere else.
C15_RandomFailure ==
    [][ (lastOp' = "onEncrypt" /\ sourceThrew')
        => ( /\ status' = setErr(ErrRandom, <<>>)
             /\ UNCHANGED <<modeScreen, decryptStep, padInput, pad, cipher, message,
                            showEncryptResults, countdown, timer, intervals, pendingEffects>> ) ]_vars

\* the random source threw on a second encrypt: the pad and ciphertext of the
\* first are still the ones shown
C15_Witness ==
    /\ lastOp = "onEncrypt"
    /\ sourceThrew
    /\ lastFrom = "Encrypted"
    /\ status = setErr(ErrRandom, <<>>)
    /\ showEncryptResults
    /\ Len(pad) = 3
    /\ Len(cipher) = 3

\* C17: for every message whose normalization is not empty and every pad the
\* generator can produce, the pad and the ciphertext a successful encrypt puts
\* on display, given to acceptPad and then to decrypt, are accepted (no empty
\* input, no length mismatch) and decrypt installs normalize(message).
C17_EndToEnd ==
    (fnIn.kind = "endToEnd" /\ normalizeInput(fnIn.text, UNIFIED_ALPHABET) # <<>>) =>
        /\ fnPc # "refused"
        /\ fnPc = "decrypted" => fnOut.plain = normalizeInput(fnIn.text, UNIFIED_ALPHABET)

\* C18: every text handed to toIndices by encrypt and decrypt (normalized
\* message, generated pad, normalized ciphertext, stored pad) holds alphabet
\* symbols only, so every index handed to otpAdd / otpSub is in 0..M-1, never
\* -1, and fromIndices finds a symbol for every index it is given (its result
\* is as long as its operand).
C18_IndexPrecondition ==
    [][ /\ (lastOp' = "onEncrypt" /\ status' = setOK(OkEncrypt)) =>
               LET mi == toIndices(normalizeInput(message, UNIFIED_ALPHABET), UNIFIED_ALPHABET)
                   pi == toIndices(pad', UNIFIED_ALPHABET)
               IN  /\ \A i \in 1..Len(mi) : mi[i] \in 0..(modulus - 1)
                   /\ \A i \in 1..Len(pi) : pi[i] \in 0..(modulus - 1)
                   /\ Len(pi) = Len(mi)
                   /\ Len(cipher') = Len(mi)
        /\ lastOp' = "onDecrypt" =>
               LET ci == toIndices(normalizeInput(cipher, UNIFIED_ALPHABET), UNIFIED_ALPHABET)
                   pi == toIndices(pad, UNIFIED_ALPHABET)
               IN  /\ \A i \in 1..Len(ci) : ci[i] \in 0..(modulus - 1)
                   /\ \A i \in 1..Len(pi) : pi[i] \in 0..(modulus - 1)
                   /\ status' = setOK(OkDecrypt) =>
                          /\ Len(pi) = Len(ci)
                          /\ Len(message') = Len(ci)
      ]_vars

\* a decrypt of a pasted ciphertext against a pad that was pasted in lower
\* case with an accent and stored normalized
C18_Witness ==
    /\ lastOp = "onDecrypt"
    /\ status = setOK(OkDecrypt)
    /\ padInput = << "h", o_acute >>
    /\ pad = << "H", "O" >>
    /\ cipher = << "}", "a" >>
    /\ Len(message) = 2

\* C19: in every reachable state a countdown is present only in the decrypt
\* flow after a pad has been accepted and while a non-empty plaintext is
\* installed, with a value in 0..300; none exists on the mode-selection
\* screen, while awaiting a pad, or in the encrypt flow.
C19_CountdownOnlyWithPlaintext ==
    countdown # NoCountdown =>
        /\ DecryptScreen
        /\ message # <<>>
        /\ countdown[1] \in 0..300

\* C20: at most one interval is live at any time, and one is live only while
\* the countdown is present and greater than zero; every change of the
\* countdown cancels the previous interval before a new one is created, so
\* each tick takes exactly one off the countdown.
C20_SingleInterval ==
    /\ [](intervals <= 1)
    /\ [](intervals > 0 => (countdown # NoCountdown /\ countdown[1] > 0))
    /\ [][lastOp' = "tick"
            => (countdown # NoCountdown /\ countdown' = Seconds(countdown[1] - 1))]_vars

====
